---- MODULE Spec2Model ----
(***************************************************************************)
(* Jupiter perpetuals analytics: one invocation of main (src/src/main.rs)  *)
(* as a state machine.  An invocation fetches the pool, captures the wall  *)
(* clock, fetches and walks the custodies (price, custody map, borrow      *)
(* rates), fetches and walks the positions (running totals, extremal       *)
(* trades), prints the report and appends one row to the CSV log.          *)
(*                                                                         *)
(* f64 values are modelled as exact fractions <<n, d>> with d > 0 in       *)
(* lowest terms, extended with the IEEE specials NaN = <<0, 0>>,           *)
(* +inf = <<1, 0>> and -inf = <<-1, 0>>.  Rounding of the mantissa is not  *)
(* modelled.                                                               *)
(***************************************************************************)
EXTENDS Integers, Sequences, FiniteSets, TLC

(***************************************************************************)
(* f64 arithmetic                                                          *)
(***************************************************************************)
Abs(x) == IF x < 0 THEN -x ELSE x

Sign(x) == IF x < 0 THEN -1 ELSE IF x > 0 THEN 1 ELSE 0

RECURSIVE Gcd(_, _)
Gcd(a, b) == IF b = 0 THEN a ELSE Gcd(b, a % b)

NaN == <<0, 0>>

Inf(s) == <<s, 0>>

IsNaN(x) == x = NaN

IsFinite(x) == x[2] # 0

IsInfinite(x) == x[2] = 0 /\ x[1] # 0

\* the fraction n/d, d # 0, in lowest terms with a positive denominator
Frac(n, d) ==
    LET g == Gcd(Abs(n), Abs(d))
        s == IF d < 0 THEN -1 ELSE 1
    IN  <<s * (n \div g), s * (d \div g)>>

\* `x as f64` of an integer
F64(i) == <<i, 1>>

FNeg(x) == <<-x[1], x[2]>>

FAdd(x, y) ==
    IF IsNaN(x) \/ IsNaN(y) THEN NaN
    ELSE IF IsInfinite(x) /\ IsInfinite(y) THEN (IF x = y THEN x ELSE NaN)
    ELSE IF IsInfinite(x) THEN x
    ELSE IF IsInfinite(y) THEN y
    ELSE LET g == Gcd(x[2], y[2])
         IN  Frac(x[1] * (y[2] \div g) + y[1] * (x[2] \div g), (x[2] \div g) * y[2])

FSub(x, y) == FAdd(x, FNeg(y))

FMul(x, y) ==
    IF IsNaN(x) \/ IsNaN(y) THEN NaN
    ELSE IF IsInfinite(x) \/ IsInfinite(y)
         THEN (IF x[1] = 0 \/ y[1] = 0 THEN NaN ELSE Inf(Sign(x[1]) * Sign(y[1])))
    ELSE LET g1 == Gcd(Abs(x[1]), y[2])
             g2 == Gcd(Abs(y[1]), x[2])
         IN  Frac((x[1] \div g1) * (y[1] \div g2), (x[2] \div g2) * (y[2] \div g1))

\* IEEE division; every divisor of the program is a non-negative zero
FDiv(x, y) ==
    IF IsNaN(x) \/ IsNaN(y) THEN NaN
    ELSE IF IsInfinite(x) /\ IsInfinite(y) THEN NaN
    ELSE IF IsInfinite(x) THEN Inf(x[1] * (IF y[1] < 0 THEN -1 ELSE 1))
    ELSE IF IsInfinite(y) THEN F64(0)
    ELSE IF y[1] = 0 THEN (IF x[1] = 0 THEN NaN ELSE Inf(Sign(x[1])))
    ELSE FMul(x, Frac(y[2], y[1]))

\* x > y on f64: false as soon as an operand is NaN
FGt(x, y) ==
    IF IsNaN(x) \/ IsNaN(y) THEN FALSE
    ELSE IF IsInfinite(x) \/ IsInfinite(y)
         THEN (IF IsInfinite(x) /\ IsInfinite(y) THEN x[1] > y[1]
               ELSE IF IsInfinite(x) THEN x[1] > 0
               ELSE y[1] < 0)
    ELSE x[1] * y[2] > y[1] * x[2]

\* f64::round: to the nearest integer, halves away from zero
FRound(x) ==
    IF ~IsFinite(x) THEN x
    ELSE F64(Sign(x[1]) * ((2 * Abs(x[1]) + x[2]) \div (2 * x[2])))

(***************************************************************************)
(* Program constants                                                       *)
(***************************************************************************)
\* decimals of spl_token::amount_to_ui_amount(_, 6)
TokenDecimals == 6

\* (10 as u32).pow(8) in get_price_from_pyth_account
PythExponent == 8

\* .div(10_000.0): basis points to absolute value
BpsDenominator == 10000

\* .div(3600.0): seconds to hours
SecsPerHour == 3600

(***************************************************************************)
(* Bounds of the model                                                     *)
(***************************************************************************)
\* custody accounts of the program on chain
MaxCustodies == 2

\* position accounts of the program on chain
MaxPositions == 2

\* invocations that are given the same log path
MaxRuns == 2

\* clock ticks that may pass while invocations run
MaxTicks == 1

\* u64 time arithmetic is kept modulo 2^WrapBits (TLC integers are 32 bits wide)
WrapBits == 16

\* the wall clock (unix seconds) when the first invocation starts
StartTime == 2 * SecsPerHour

TickSecs == SecsPerHour \div 2

WrapModulus == 2 ^ WrapBits

(***************************************************************************)
(* Account data on chain                                                   *)
(*                                                                         *)
(* perp_abi is the Anchor binding of the perpetuals program: Side has the  *)
(* variants None, Long and Short; Custody and Position carry the fields    *)
(* main reads.  Pubkeys are modelled as tagged indices; Pubkey::default()  *)
(* is the all-zero key, which no account has.                              *)
(***************************************************************************)
DefaultPubkey == <<"default", 0>>

CustodyPubkey(k) == <<"custody", k>>

MintPubkey(k) == <<"mint", k>>

PositionPubkey(i) == <<"position", i>>

Sides == {"None", "Long", "Short"}

\* Side::default()
DefaultSide == "None"

Unit == 10 ^ TokenDecimals

PythUnit == 10 ^ PythExponent

Custody(k, owned, locked, bps, oracle) ==
    [pubkey |-> CustodyPubkey(k), mint |-> MintPubkey(k), owned |-> owned,
     locked |-> locked, hourly_funding_bps |-> bps, oracle_price |-> oracle]

\* the custody accounts the chain may hold under key k, per input universe:
\* "custody" varies utilisation and the oracle price on both sides of the
\* rounding boundary (1.4 rounds to 1, 1.5 to 2), the others fix one volatile
\* custody at 20.0 (odd k) and one stable custody at 1.0 (even k)
CustodyChoices(u, k) ==
    IF u = "custody"
    THEN { Custody(k, a[1], a[2], 10, o) :
             a \in {<<2 * Unit, Unit>>, <<2 * Unit, 0>>, <<0, 0>>},
             o \in {(7 * PythUnit) \div 5, (3 * PythUnit) \div 2} }
    ELSE IF k % 2 = 1 THEN { Custody(k, 2 * Unit, Unit, 10, 20 * PythUnit) }
    ELSE { Custody(k, 2 * Unit, Unit, 10, PythUnit) }

CustodyKeys(u) ==
    IF u = "custody" THEN 1..MaxCustodies ELSE IF u = "position" THEN 1..2 ELSE {1}

\* every sequence without repetition over the set S
RECURSIVE Arrangements(_)
Arrangements(S) ==
    {<<>>} \cup UNION { { <<x>> \o r : r \in Arrangements(S \ {x}) } : x \in S }

RECURSIVE Pick(_, _, _)
\* the lists that fill the key sequence ks from the choices ch(u, k)
Pick(u, ks, i) ==
    IF i > Len(ks) THEN {<<>>}
    ELSE { <<c>> \o r : c \in CustodyChoices(u, ks[i]), r \in Pick(u, ks, i + 1) }

\* what getProgramAccounts may return for the Custody discriminator
CustodyFetches(u) == UNION { Pick(u, ks, 1) : ks \in Arrangements(CustodyKeys(u)) }

Position(size, price, coll, custody, ccustody, side, time) ==
    [size_usd |-> size, price |-> price, collateral_usd |-> coll,
     custody |-> CustodyPubkey(custody), collateral_custody |-> CustodyPubkey(ccustody),
     side |-> side, update_time |-> time]

\* the position accounts the chain may hold at time now, per input universe
PositionChoices(u, now) ==
    LET old == StartTime - SecsPerHour
        ref == Position(2 * Unit, 10 * Unit, Unit, 1, 1, "Long", old)
    IN  IF u = "position"
        THEN { Position(2 * Unit, e * Unit, Unit, 1, 1, s, old) : e \in {10, 40}, s \in Sides }
             \cup { Position(2 * Unit, 10 * Unit, Unit, 1, 2, "Long", old),
                    Position(2 * Unit, 10 * Unit, Unit, 2, 1, "Long", old),
                    Position(2 * Unit, 10 * Unit, Unit, 1, 1, "Long", now),
                    Position(0, 10 * Unit, Unit, 1, 2, "Long", old) }
        ELSE IF u = "custody"
        THEN { ref, Position(2 * Unit, 10 * Unit, Unit, 1, 2, "Short", old) }
        ELSE { ref }

PositionLimit(u) == IF u = "position" THEN MaxPositions ELSE 1

RECURSIVE PositionLists(_, _, _)
PositionLists(u, now, n) ==
    IF n = 0 THEN {<<>>}
    ELSE LET shorter == PositionLists(u, now, n - 1)
         IN  shorter \cup
             { l \o <<[pubkey |-> PositionPubkey(Len(l) + 1), p |-> c]>> :
                 l \in {x \in shorter : Len(x) = n - 1}, c \in PositionChoices(u, now) }

\* what getProgramAccounts may return for the Position discriminator
PositionFetches(u, now) == PositionLists(u, now, PositionLimit(u))

PoolChoices == { [aum_usd |-> 5 * Unit, increase_position_bps |-> 6] }

\* what getProgramAccounts may return for the Pool discriminator
PoolFetches == {<<>>} \cup { <<p>> : p \in PoolChoices }

ArgChoices(u) ==
    IF u = "repeat" THEN [csv_path : BOOLEAN, silent : BOOLEAN]
    ELSE { [csv_path |-> TRUE, silent |-> FALSE] }

(***************************************************************************)
(* State                                                                   *)
(***************************************************************************)
VARIABLES
    universe,           \* which bounded set of inputs the chain and the shell draw from
    clock,              \* the wall clock, unix seconds
    csv_file,           \* the lines of the log file at the path given with -c
    csv_writer_runs,    \* history: per line of csv_file, the invocation that wrote it
    runs,               \* history: the number of the current invocation
    args,               \* Args: csv_path (given or not), silent
    pc,                 \* the position of main
    err,                \* why main stopped early
    pool,               \* the decoded Pool account
    total_pool_value,
    unix_time,
    custody_accounts,   \* the Custody accounts fetched, in the order of the RPC answer
    ci,                 \* how many of them the custody loop has taken
    pubkey_to_custody,
    custody_pubkey_to_borrow_rate,
    mint_to_price,
    stable_custodys,
    si,                 \* how many stable custodies the follow-up loop has taken
    stable_aum,
    stable_borrow,
    position_accounts,  \* the Position accounts fetched, in the order of the RPC answer
    pi,                 \* how many of them the position loop has taken
    stats,              \* the accumulators of the position loop
    pnl_history,        \* history: <<pubkey, unrealized_pnl>> of every position counted
    summary,            \* the ratios and counts computed after the loop
    report              \* what was printed to the console

env == <<universe, clock>>

log == <<csv_file, csv_writer_runs>>

custody_vars == <<custody_accounts, ci, pubkey_to_custody, custody_pubkey_to_borrow_rate,
                  mint_to_price, stable_custodys, si, stable_aum, stable_borrow>>

position_vars == <<position_accounts, pi, stats, pnl_history>>

vars == <<universe, clock, csv_file, csv_writer_runs, runs, args, pc, err, pool,
          total_pool_value, unix_time, custody_accounts, ci, pubkey_to_custody,
          custody_pubkey_to_borrow_rate, mint_to_price, stable_custodys, si, stable_aum,
          stable_borrow, position_accounts, pi, stats, pnl_history, summary, report>>

\* The inputs are drawn from one of three bounded universes, fixed at start:
\*   "custody"  one invocation; custodies vary in utilisation, price and order,
\*              positions are few;
\*   "position" one invocation; positions vary in side, entry price, custodies,
\*              size and update time, the custodies are one volatile, one stable;
\*   "repeat"   up to MaxRuns invocations on the same log path, with every
\*              combination of -c and -s, over one custody and one position.
Universes == {"custody", "position", "repeat"}

\* no error, no failed lookup
NoValue == "none"

\* an Option is a sequence of at most one value
None == <<>>

Some(x) == <<x>>

Value(option) == option[1]

EmptyMap == [x \in {} |-> NoValue]

Put(m, k, v) == [x \in DOMAIN m \cup {k} |-> IF x = k THEN v ELSE m[x]]

\* (Pubkey, f64, f64, Side, Pubkey)::default()
DefaultTrade == <<DefaultPubkey, F64(0), F64(0), DefaultSide, DefaultPubkey>>

\* the accumulators as main declares them before the position loop
InitialStats ==
    [num_positions |-> 0, num_longs |-> 0, num_winning |-> 0,
     long_short_sign |-> F64(0),
     cumulative_positions |-> F64(0), cumulative_long |-> F64(0),
     cumulative_positions_at_entry |-> F64(0),
     cumulative_collateral |-> F64(0), cumulative_collateral_at_entry |-> F64(0),
     cumulative_fees |-> F64(0), cumulative_pnl |-> F64(0),
     highest_unrealized_profit |-> F64(0), highest_unrealized_losses |-> F64(0),
     most_profitable_trade |-> DefaultTrade, least_profitable_trade |-> DefaultTrade]

\* the locals of main at entry
FreshRun ==
    /\ pc = "fetch_pool"
    /\ err = NoValue
    /\ pool = None
    /\ total_pool_value = F64(0)
    /\ unix_time = 0
    /\ custody_accounts = <<>>
    /\ ci = 0
    /\ pubkey_to_custody = EmptyMap
    /\ custody_pubkey_to_borrow_rate = EmptyMap
    /\ mint_to_price = EmptyMap
    /\ stable_custodys = <<>>
    /\ si = 0
    /\ stable_aum = 0
    /\ stable_borrow = 0
    /\ position_accounts = <<>>
    /\ pi = 0
    /\ stats = InitialStats
    /\ pnl_history = <<>>
    /\ summary = None
    /\ report = None

Init ==
    /\ universe \in Universes
    /\ clock = StartTime
    /\ csv_file = <<>>
    /\ csv_writer_runs = <<>>
    /\ runs = 1
    /\ args \in ArgChoices(universe)
    /\ FreshRun

(***************************************************************************)
(* Helpers of main                                                         *)
(***************************************************************************)
\* spl_token::amount_to_ui_amount(amount, 6)
amount_to_ui_amount(amount) == FDiv(F64(amount), F64(Unit))

\* get_price_from_pyth_account: price.price as f64 / 10^8
get_price_from_pyth_account(custody) == FDiv(F64(custody.oracle_price), F64(PythUnit))

\* price.round() == 1.0
IsStable(price) == FRound(price) = F64(1)

\* the borrow rate of a volatile custody: locked / owned * hourly_funding_bps
VolatileBorrowRate(custody) ==
    FMul(FDiv(amount_to_ui_amount(custody.locked), amount_to_ui_amount(custody.owned)),
         F64(custody.hourly_funding_bps))

\* the pooled ratio with its operands swapped
StableBorrowRateInverted(borrow, aum) == FDiv(F64(aum), F64(borrow))

\* the borrow rate every stable custody gets: stable_borrow / stable_aum
StableBorrowRate(borrow, aum) == FDiv(F64(borrow), F64(aum))

Abort(reason) ==
    /\ pc' = "aborted"
    /\ err' = reason

(***************************************************************************)
(* The body of the position loop, as a function of the accumulators        *)
(***************************************************************************)
\* a loop body that forgets the size_usd test
IsActiveAlways(position) == TRUE

\* if position.size_usd != 0
IsActive(position) == position.size_usd # 0

\* position.update_time as u64
AsU64(t) == t % WrapModulus

\* unix_time.sub(position.update_time as u64) underflows
TimeUnderflows(now, position) == AsU64(position.update_time) > now

\* the u64 difference where the build wraps (overflow checks off)
ElapsedSeconds(now, position) == (now - AsU64(position.update_time)) % WrapModulus

\* the sign the side leaves in long_short_sign: None leaves what the last position left
SignAfter(sign, side) ==
    IF side = "Long" THEN F64(1) ELSE IF side = "Short" THEN F64(-1) ELSE sign

\* a comparison against the running maximum that lets a tie replace the holder
NewHighestProfitOrEqual(unrealized_pnl, highest) ==
    FGt(unrealized_pnl, F64(0)) /\ ~FGt(highest, unrealized_pnl)

\* unrealized_pnl > 0.0 && unrealized_pnl > highest_unrealized_profit
NewHighestProfit(unrealized_pnl, highest) ==
    FGt(unrealized_pnl, F64(0)) /\ FGt(unrealized_pnl, highest)

\* highest_unrealized_losses > unrealized_pnl
NewHighestLoss(unrealized_pnl, highest) == FGt(highest, unrealized_pnl)

\* the first lookup of the active branch that finds nothing (unwrap on None), if any
FailedLookup(position) ==
    IF position.custody \notin DOMAIN pubkey_to_custody THEN "custody"
    ELSE IF pubkey_to_custody[position.custody].mint \notin DOMAIN mint_to_price THEN "price"
    ELSE IF TimeUnderflows(unix_time, position) THEN "time"
    ELSE IF position.collateral_custody \notin DOMAIN custody_pubkey_to_borrow_rate
         THEN "borrow_rate"
    ELSE NoValue

\* amount.mul(price): the position's quantity at the current price of its mint
CurrentPositionValue(position) ==
    FMul(FDiv(F64(position.size_usd), F64(position.price)),
         mint_to_price[pubkey_to_custody[position.custody].mint])

\* paper unrealized pnl: (current value - value at entry) * long_short_sign
UnrealizedPnl(sign, position) ==
    FMul(FSub(CurrentPositionValue(position), amount_to_ui_amount(position.size_usd)), sign)

\* one iteration over an active position whose lookups succeed;
\* elapsed is the value of unix_time - update_time
Accumulate(st, account, elapsed) ==
    LET position == account.p
        mint == pubkey_to_custody[position.custody].mint
        amount == FDiv(F64(position.size_usd), F64(position.price))
        price_at_entry == amount_to_ui_amount(position.price)
        price == mint_to_price[mint]
        interval == FDiv(F64(elapsed), F64(SecsPerHour))
        current_position_value == CurrentPositionValue(position)
        position_value_at_entry == amount_to_ui_amount(position.size_usd)
        entry_fees == FDiv(FMul(position_value_at_entry, F64(Value(pool).increase_position_bps)),
                           F64(BpsDenominator))
        borrow_fees == FDiv(FMul(FMul(custody_pubkey_to_borrow_rate[position.collateral_custody],
                                      interval),
                                 position_value_at_entry),
                            F64(BpsDenominator))
        long_short_sign == SignAfter(st.long_short_sign, position.side)
        collateral_at_entry == amount_to_ui_amount(position.collateral_usd)
        current_collateral ==
            FAdd(collateral_at_entry,
                 FMul(FMul(amount, FSub(price, price_at_entry)), long_short_sign))
        unrealized_pnl == UnrealizedPnl(long_short_sign, position)
        trade == <<account.pubkey, unrealized_pnl, price_at_entry, position.side, mint>>
        winning == FGt(unrealized_pnl, F64(0))
        best == NewHighestProfit(unrealized_pnl, st.highest_unrealized_profit)
        worst == NewHighestLoss(unrealized_pnl, st.highest_unrealized_losses)
    IN  [num_positions |-> st.num_positions + 1,
         num_longs |-> st.num_longs + (IF position.side = "Long" THEN 1 ELSE 0),
         num_winning |-> st.num_winning + (IF winning THEN 1 ELSE 0),
         long_short_sign |-> long_short_sign,
         cumulative_positions |-> FAdd(st.cumulative_positions, current_position_value),
         cumulative_long |->
             IF position.side = "Long"
             THEN FAdd(st.cumulative_long, current_position_value)
             ELSE st.cumulative_long,
         cumulative_positions_at_entry |->
             FAdd(st.cumulative_positions_at_entry, position_value_at_entry),
         cumulative_collateral |-> FAdd(st.cumulative_collateral, current_collateral),
         cumulative_collateral_at_entry |->
             FAdd(st.cumulative_collateral_at_entry, collateral_at_entry),
         cumulative_fees |->
             FAdd(st.cumulative_fees, FAdd(FMul(entry_fees, F64(2)), borrow_fees)),
         cumulative_pnl |-> FAdd(st.cumulative_pnl, unrealized_pnl),
         highest_unrealized_profit |->
             IF best THEN unrealized_pnl ELSE st.highest_unrealized_profit,
         highest_unrealized_losses |->
             IF worst THEN unrealized_pnl ELSE st.highest_unrealized_losses,
         most_profitable_trade |-> IF best THEN trade ELSE st.most_profitable_trade,
         least_profitable_trade |-> IF worst THEN trade ELSE st.least_profitable_trade]

\* a loop body that skips a position whose lookups fail instead of stopping
ProcessPositionSkippingFailures(st, account, checks) ==
    IF ~IsActive(account.p) \/ FailedLookup(account.p) # NoValue
    THEN [ok |-> TRUE, stats |-> st]
    ELSE [ok |-> TRUE,
          stats |-> Accumulate(st, account, ElapsedSeconds(unix_time, account.p))]

\* the whole loop body: skip a closed position, stop at a failed lookup, else accumulate.
\* A time underflow stops a build with overflow checks and wraps in one without.
ProcessPosition(st, account, checks) ==
    LET position == account.p
        failed == FailedLookup(position)
    IN  IF ~IsActive(position) THEN [ok |-> TRUE, stats |-> st]
        ELSE IF failed # NoValue /\ (failed # "time" \/ checks)
             THEN [ok |-> FALSE, err |-> failed]
        ELSE IF failed = "time" /\
                position.collateral_custody \notin DOMAIN custody_pubkey_to_borrow_rate
             THEN [ok |-> FALSE, err |-> "borrow_rate"]
        ELSE [ok |-> TRUE,
              stats |-> Accumulate(st, account, ElapsedSeconds(unix_time, position))]

\* the accumulators after the loop has walked the list `accounts` from `st`
\* (in a build that wraps), or None if a lookup stops it
RECURSIVE Aggregate(_, _, _)
Aggregate(st, accounts, i) ==
    IF i > Len(accounts) THEN Some(st)
    ELSE LET r == ProcessPosition(st, accounts[i], FALSE)
         IN  IF r.ok THEN Aggregate(r.stats, accounts, i + 1) ELSE None

(***************************************************************************)
(* The steps of main                                                       *)
(***************************************************************************)
\* get_program_accounts_with_discrim(Pool), pool_accounts[0] (a panic on an empty
\* answer), try_deserialize, total_pool_value (aum_usd as u64 keeps the value of
\* every aum_usd drawn here)
FetchPool ==
    /\ pc = "fetch_pool"
    /\ \/ /\ \E reason \in {"transport", "decode"} : Abort(reason)
          /\ UNCHANGED <<pool, total_pool_value>>
       \/ \E pool_accounts \in PoolFetches :
            IF pool_accounts = <<>>
            THEN Abort("no_pool") /\ UNCHANGED <<pool, total_pool_value>>
            ELSE /\ pool' = Some(pool_accounts[1])
                 /\ total_pool_value' = amount_to_ui_amount(pool_accounts[1].aum_usd)
                 /\ pc' = "capture_time"
                 /\ UNCHANGED err
    /\ UNCHANGED <<env, log, runs, args, unix_time, custody_vars, position_vars,
                   summary, report>>

\* SystemTime::now().duration_since(UNIX_EPOCH)?.as_secs()
CaptureTime ==
    /\ pc = "capture_time"
    /\ unix_time' = clock
    /\ pc' = "fetch_custodies"
    /\ UNCHANGED <<env, log, runs, args, err, pool, total_pool_value, custody_vars,
                   position_vars, summary, report>>

\* a main that fetches the positions before the stable follow-up loop has run
AfterCustodyLoopSkippingStable(accounts, n, stables) ==
    IF n < Len(accounts) THEN "custody_loop" ELSE "fetch_positions"

\* where main goes once the custody loop has walked n accounts
AfterCustodyLoop(accounts, n, stables) ==
    IF n < Len(accounts) THEN "custody_loop"
    ELSE IF stables # <<>> THEN "stable_loop"
    ELSE "fetch_positions"

\* get_program_accounts_with_discrim(Custody)
FetchCustodies ==
    /\ pc = "fetch_custodies"
    /\ \/ Abort("transport")
          /\ UNCHANGED custody_accounts
       \/ \E accounts \in CustodyFetches(universe) :
            /\ custody_accounts' = accounts
            /\ pc' = AfterCustodyLoop(accounts, 0, <<>>)
            /\ UNCHANGED err
    /\ UNCHANGED <<env, log, runs, args, pool, total_pool_value, unix_time, ci,
                   pubkey_to_custody, custody_pubkey_to_borrow_rate, mint_to_price,
                   stable_custodys, si, stable_aum, stable_borrow, position_vars,
                   summary, report>>

\* one iteration of `for (custody_pubkey, custody) in custody_accounts`
CustodyStep ==
    /\ pc = "custody_loop"
    /\ ci < Len(custody_accounts)
    /\ LET custody == custody_accounts[ci + 1]
           price == get_price_from_pyth_account(custody)
       IN  \/ /\ \E reason \in {"decode", "oracle"} : Abort(reason)
              /\ UNCHANGED <<ci, pubkey_to_custody, custody_pubkey_to_borrow_rate,
                             mint_to_price, stable_custodys, stable_aum, stable_borrow>>
           \/ /\ ci' = ci + 1
              /\ pubkey_to_custody' = Put(pubkey_to_custody, custody.pubkey, custody)
              /\ IF IsStable(price)
                 THEN /\ stable_custodys' = Append(stable_custodys, custody.pubkey)
                      /\ stable_aum' = stable_aum + custody.owned
                      /\ stable_borrow' = stable_borrow + custody.locked
                      /\ UNCHANGED <<mint_to_price, custody_pubkey_to_borrow_rate>>
                 ELSE /\ mint_to_price' = Put(mint_to_price, custody.mint, price)
                      /\ custody_pubkey_to_borrow_rate' =
                            Put(custody_pubkey_to_borrow_rate, custody.pubkey,
                                VolatileBorrowRate(custody))
                      /\ UNCHANGED <<stable_custodys, stable_aum, stable_borrow>>
              /\ pc' = AfterCustodyLoop(custody_accounts, ci + 1, stable_custodys')
              /\ UNCHANGED err
    /\ UNCHANGED <<env, log, runs, args, pool, total_pool_value, unix_time,
                   custody_accounts, si, position_vars, summary, report>>

\* one iteration of `for stable_custody in stable_custodys`
StableStep ==
    /\ pc = "stable_loop"
    /\ si < Len(stable_custodys)
    /\ si' = si + 1
    /\ custody_pubkey_to_borrow_rate' =
          Put(custody_pubkey_to_borrow_rate, stable_custodys[si + 1],
              StableBorrowRate(stable_borrow, stable_aum))
    /\ pc' = IF si + 1 < Len(stable_custodys) THEN "stable_loop" ELSE "fetch_positions"
    /\ UNCHANGED <<env, log, runs, args, err, pool, total_pool_value, unix_time,
                   custody_accounts, ci, pubkey_to_custody, mint_to_price, stable_custodys,
                   stable_aum, stable_borrow, position_vars, summary, report>>

\* get_program_accounts_with_discrim(Position)
FetchPositions ==
    /\ pc = "fetch_positions"
    /\ \/ Abort("transport")
          /\ UNCHANGED position_accounts
       \/ \E accounts \in PositionFetches(universe, clock) :
            /\ position_accounts' = accounts
            /\ pc' = IF accounts = <<>> THEN "report" ELSE "position_loop"
            /\ UNCHANGED err
    /\ UNCHANGED <<env, log, runs, args, pool, total_pool_value, unix_time, custody_vars,
                   pi, stats, pnl_history, summary, report>>

\* one iteration of `for (position_pubkey, position) in position_accounts`
PositionStep ==
    /\ pc = "position_loop"
    /\ pi < Len(position_accounts)
    /\ LET account == position_accounts[pi + 1]
       IN  \/ /\ Abort("decode")
              /\ UNCHANGED <<pi, stats, pnl_history>>
           \/ \E checks \in BOOLEAN :
                LET r == ProcessPosition(stats, account, checks)
                IN  IF r.ok
                    THEN /\ pi' = pi + 1
                         /\ stats' = r.stats
                         /\ pnl_history' =
                               IF r.stats.num_positions # stats.num_positions
                               THEN Append(pnl_history,
                                           <<account.pubkey,
                                             UnrealizedPnl(r.stats.long_short_sign,
                                                           account.p)>>)
                               ELSE pnl_history
                         /\ pc' = IF pi + 1 < Len(position_accounts)
                                  THEN "position_loop" ELSE "report"
                         /\ UNCHANGED err
                    ELSE /\ Abort(r.err)
                         /\ UNCHANGED <<pi, stats, pnl_history>>
    /\ UNCHANGED <<env, log, runs, args, pool, total_pool_value, unix_time, custody_vars,
                   position_accounts, summary, report>>

\* the fixed header record of the log
CsvHeader ==
    <<"Unix Time", "Total Pool Value", "Unrealized Paper P&L", "Total Fees",
      "Total Value of Positions", "Total Value of Collateral", "Average Leverage At Entry",
      "Average Effective Leverage", "Long Trades", "Long Value", "Short Trades",
      "Short Value">>

\* the text of one field of a record
Field(value) == ToString(value)

\* csv_writer.serialize of the 12-tuple: one line of 12 text fields
Serialize(tuple) == [i \in 1..Len(tuple) |-> Field(tuple[i])]

\* the tuple handed to csv_writer.serialize
CsvTuple ==
    <<unix_time, total_pool_value, stats.cumulative_pnl, stats.cumulative_fees,
      stats.cumulative_positions, stats.cumulative_collateral,
      Value(summary).average_leverage_at_entry, Value(summary).average_effective_leverage,
      stats.num_longs, stats.cumulative_long, Value(summary).num_short,
      FSub(stats.cumulative_positions, stats.cumulative_long)>>

CsvRow == Serialize(CsvTuple)

\* a header test that every invocation passes
FileIsEmptyAlways(file) == TRUE

\* csv_file.metadata()?.len() == 0
FileIsEmpty(file) == Len(file) = 0

\* the values handed to the two println! calls (before text formatting)
Printed(sm) ==
    [unix_time |-> unix_time,
     total_pool_value |-> FRound(total_pool_value),
     unrealized_pnl |-> FRound(stats.cumulative_pnl),
     total_fees |-> FRound(stats.cumulative_fees),
     real_unrealized_pnl |-> FRound(FSub(stats.cumulative_pnl, stats.cumulative_fees)),
     total_position_value |-> FRound(stats.cumulative_positions),
     total_collateral_value |-> FRound(stats.cumulative_collateral),
     average_leverage_at_entry |-> sm.average_leverage_at_entry,
     average_effective_leverage |-> sm.average_effective_leverage,
     num_longs |-> stats.num_longs,
     value_long |-> FRound(stats.cumulative_long),
     num_short |-> sm.num_short,
     value_short |-> FRound(FSub(stats.cumulative_positions, stats.cumulative_long)),
     long_short_ratio |->
         FDiv(F64(stats.num_longs), F64(stats.num_positions - stats.num_longs)),
     long_short_value |->
         FDiv(stats.cumulative_long,
              FSub(stats.cumulative_positions, stats.cumulative_long)),
     num_winning |-> stats.num_winning,
     num_losing |-> stats.num_positions - stats.num_winning,
     most_profitable_trade |->
         [stats.most_profitable_trade EXCEPT ![2] = FRound(@)],
     least_profitable_trade |->
         [stats.least_profitable_trade EXCEPT ![2] = FRound(@)]]

\* the ratios after the loop, then the console report unless -s
Report ==
    /\ pc = "report"
    /\ LET sm == [average_leverage_at_entry |->
                      FDiv(stats.cumulative_positions_at_entry,
                           stats.cumulative_collateral_at_entry),
                  average_effective_leverage |->
                      FDiv(stats.cumulative_positions, stats.cumulative_collateral),
                  num_short |-> stats.num_positions - stats.num_longs]
       IN  /\ summary' = Some(sm)
           /\ report' = IF args.silent THEN None ELSE Some(Printed(sm))
    /\ pc' = IF args.csv_path THEN "write_csv" ELSE "done"
    /\ UNCHANGED <<env, log, runs, args, err, pool, total_pool_value, unix_time,
                   custody_vars, position_vars>>

\* open the log for append, write the header if the file is empty, serialize the row, flush
WriteCsv ==
    /\ pc = "write_csv"
    /\ \/ /\ Abort("io")
          /\ UNCHANGED log
       \/ /\ LET lines == IF FileIsEmpty(csv_file) THEN <<CsvHeader, CsvRow>> ELSE <<CsvRow>>
             IN  /\ csv_file' = csv_file \o lines
                 /\ csv_writer_runs' = csv_writer_runs \o [i \in 1..Len(lines) |-> runs]
          /\ pc' = "done"
          /\ UNCHANGED err
    /\ UNCHANGED <<env, runs, args, pool, total_pool_value, unix_time, custody_vars,
                   position_vars, summary, report>>

\* how many invocations a universe runs one after the other
RunLimit(u) == IF u = "repeat" THEN MaxRuns ELSE 1

\* the process has exited; the shell starts the program again
Invoke ==
    /\ pc \in {"done", "aborted"}
    /\ runs < RunLimit(universe)
    /\ runs' = runs + 1
    /\ args' \in ArgChoices(universe)
    /\ pc' = "fetch_pool"
    /\ err' = NoValue
    /\ pool' = None
    /\ total_pool_value' = F64(0)
    /\ unix_time' = 0
    /\ custody_accounts' = <<>>
    /\ ci' = 0
    /\ pubkey_to_custody' = EmptyMap
    /\ custody_pubkey_to_borrow_rate' = EmptyMap
    /\ mint_to_price' = EmptyMap
    /\ stable_custodys' = <<>>
    /\ si' = 0
    /\ stable_aum' = 0
    /\ stable_borrow' = 0
    /\ position_accounts' = <<>>
    /\ pi' = 0
    /\ stats' = InitialStats
    /\ pnl_history' = <<>>
    /\ summary' = None
    /\ report' = None
    /\ UNCHANGED <<env, log>>

\* time passes while an invocation waits for the RPC node; the tick is taken where
\* the clock is next read: by main before CaptureTime, by the chain (the
\* update_time of a position touched meanwhile) before FetchPositions
Tick ==
    /\ pc \in {"capture_time", "fetch_positions"}
    /\ clock < StartTime + MaxTicks * TickSecs
    /\ clock' = clock + TickSecs
    /\ UNCHANGED <<universe, log, runs, args, pc, err, pool, total_pool_value, unix_time,
                   custody_vars, position_vars, summary, report>>

Next ==
    \/ FetchPool
    \/ CaptureTime
    \/ FetchCustodies
    \/ CustodyStep
    \/ StableStep
    \/ FetchPositions
    \/ PositionStep
    \/ Report
    \/ WriteCsv
    \/ Invoke
    \/ Tick

Spec == Init /\ [][Next]_vars

(***************************************************************************)
(* Properties                                                              *)
(***************************************************************************)
Range(f) == { f[x] : x \in DOMAIN f }

\* the position loop has walked the whole list
PositionLoopDone ==
    \/ pc \in {"report", "write_csv", "done"}
    \/ pc = "aborted" /\ err = "io"

\* every reordering of the sequence q
Reorderings(q) ==
    { [i \in 1..Len(q) |-> q[f[i]]] : f \in Permutations(1..Len(q)) }

\* the counts and cumulative totals of the accumulators st
Totals(st) ==
    [positions |-> st.num_positions, longs |-> st.num_longs,
     shorts |-> st.num_positions - st.num_longs, winning |-> st.num_winning,
     positions_at_entry |-> st.cumulative_positions_at_entry,
     positions_now |-> st.cumulative_positions,
     collateral_at_entry |-> st.cumulative_collateral_at_entry,
     collateral_now |-> st.cumulative_collateral,
     long_value |-> st.cumulative_long,
     fees |-> st.cumulative_fees, pnl |-> st.cumulative_pnl]

\* C1: aggregation is order-independent: once the position loop has walked the
\* list, every reordering of the fetched positions, walked with the same custody
\* map, price table, borrow rates, pool fee and scan time, ends with the same
\* counts and the same cumulative totals.
C1_OrderIndependent ==
    PositionLoopDone =>
        \A q \in Reorderings(position_accounts) :
            LET st == Aggregate(InitialStats, q, 1)
            IN  st # None /\ Totals(Value(st)) = Totals(stats)

\* the custodies of the fetch that the custody loop classifies stable
StableFetched ==
    { c \in Range(custody_accounts) :
        FRound(FDiv(F64(c.oracle_price), F64(PythUnit))) = F64(1) }

RECURSIVE SumOver(_, _)
\* the sum of field f over the set S of records
SumOver(S, f) ==
    IF S = {} THEN 0
    ELSE LET x == CHOOSE y \in S : TRUE IN x[f] + SumOver(S \ {x}, f)

\* main is past the custody loop and the stable follow-up loop
CustodyPassDone == pc \in {"fetch_positions", "position_loop", "report", "write_csv", "done"}

\* every fetched custody is in the custody map and has a borrow rate
TablesComplete ==
    \A c \in Range(custody_accounts) :
        /\ c.pubkey \in DOMAIN pubkey_to_custody
        /\ pubkey_to_custody[c.pubkey] = c
        /\ c.pubkey \in DOMAIN custody_pubkey_to_borrow_rate

\* C2: the borrow-rate table and the custody map are complete before the position
\* loop starts: whenever a step leaves main at or after the position fetch, every
\* fetched custody has its borrow rate and its entry in the custody map, and a
\* step taken at or after the position fetch changes neither table.
C2_TablesBeforePositions ==
    [][ /\ CustodyPassDone' => TablesComplete'
        /\ (CustodyPassDone /\ runs' = runs) =>
              UNCHANGED <<pubkey_to_custody, custody_pubkey_to_borrow_rate, mint_to_price>>
      ]_vars

\* the pubkeys of the custody set fetched in this scan
FetchedCustodyKeys == { c.pubkey : c \in Range(custody_accounts) }

\* a position record one of whose custody addresses is no fetched custody
Dangling(position) ==
    \/ position.custody \notin FetchedCustodyKeys
    \/ position.collateral_custody \notin FetchedCustodyKeys

\* the run has printed no report, has written no row and has not completed
RunIsFatal ==
    /\ report = None
    /\ runs \notin Range(csv_writer_runs)
    /\ pc # "done"

\* C3 (as stated): a fetched position record, active or closed, with a custody
\* address outside the fetched custody set makes the run fatal: no report is
\* printed and no row is appended.
C3_AnyDanglingIsFatal ==
    (\E a \in Range(position_accounts) : Dangling(a.p)) => RunIsFatal

\* C3 (amended): a fetched position record with sizeUsd != 0 and a custody address
\* outside the fetched custody set makes the run fatal: no report is printed and
\* no row is appended.  Closed records (sizeUsd == 0) are skipped unlooked.
C3_ActiveDanglingIsFatal ==
    (\E a \in Range(position_accounts) : a.p.size_usd # 0 /\ Dangling(a.p)) => RunIsFatal

C3_Witness ==
    /\ pc = "aborted"
    /\ err \in {"custody", "borrow_rate"}
    /\ pi >= 1
    /\ \E a \in Range(position_accounts) : a.p.size_usd # 0 /\ Dangling(a.p)

\* C4: a volatile custody with assets.owned = 0 stops the run with an explicit
\* error, and no NaN or infinite rate is ever stored in the borrow-rate table.
C4_NoNonFiniteRate ==
    /\ \A k \in DOMAIN custody_pubkey_to_borrow_rate :
          IsFinite(custody_pubkey_to_borrow_rate[k])
    /\ \A i \in 1..ci :
          (custody_accounts[i] \notin StableFetched /\ custody_accounts[i].owned = 0)
              => pc = "aborted"

\* C9: after the custody pass the price table has the mint of every custody of
\* the custody map, stable or volatile, and the price lookup never fails.
C9_EveryMintPriced ==
    /\ CustodyPassDone =>
          \A k \in DOMAIN pubkey_to_custody :
              pubkey_to_custody[k].mint \in DOMAIN mint_to_price
    /\ err # "price"

\* C10: every active position walked has update_time <= the captured scan time,
\* so the u64 subtraction neither wraps nor aborts and the fees are not negative.
C10_NoTimeUnderflow ==
    /\ \A i \in 1..pi :
          position_accounts[i].p.size_usd # 0
              => position_accounts[i].p.update_time <= unix_time
    /\ err # "time"
    /\ ~FGt(F64(0), stats.cumulative_fees)

C2_Witness ==
    /\ pc = "position_loop"
    /\ pi >= 1
    /\ Len(stable_custodys) >= 1
    /\ Len(custody_accounts) > Len(stable_custodys)
    /\ TablesComplete

\* the rows of the log that are not the header record
DataRows(file) == { i \in 1..Len(file) : file[i] # CsvHeader }

\* C5: the log holds the header exactly once: the file is empty, or its first
\* line is the 12-column header and every later line is a 12-column data row;
\* every invocation that wrote did so once, one data row each, in invocation
\* order; an invocation that completed with a log path has its row in the file;
\* and the invocation that wrote the header is the one that found the file empty
\* (it wrote the first data row too).
C5_HeaderOnce ==
    /\ Len(csv_writer_runs) = Len(csv_file)
    /\ csv_file # <<>> =>
          /\ csv_file[1] = CsvHeader
          /\ Len(CsvHeader) = 12
          /\ DataRows(csv_file) = 2..Len(csv_file)
          /\ \A i \in DataRows(csv_file) : Len(csv_file[i]) = 12
          /\ csv_writer_runs[1] = csv_writer_runs[2]
          /\ \A i, j \in DataRows(csv_file) : i < j => csv_writer_runs[i] < csv_writer_runs[j]
    /\ (pc = "done" /\ args.csv_path) =>
          /\ csv_file # <<>>
          /\ csv_writer_runs[Len(csv_file)] = runs
          /\ csv_file[Len(csv_file)][1] = ToString(unix_time)

C5_Witness ==
    /\ pc = "done"
    /\ runs >= 2
    /\ Len(csv_file) >= 3
    /\ Cardinality(Range(csv_writer_runs)) >= 2

\* the first index of the history h whose pnl no other entry beats, for the order gt
FirstExtreme(h, gt(_, _)) ==
    CHOOSE i \in 1..Len(h) :
        /\ \A j \in 1..Len(h) : ~gt(h[j][2], h[i][2])
        /\ \A j \in 1..(i - 1) : gt(h[i][2], h[j][2])

\* the position account with pubkey k
AccountOf(k) == CHOOSE a \in Range(position_accounts) : a.pubkey = k

\* the record main keeps for the history entry e
TradeOf(e) ==
    LET a == AccountOf(e[1])
    IN  <<e[1], e[2], amount_to_ui_amount(a.p.price), a.p.side,
          pubkey_to_custody[a.p.custody].mint>>

FLt(x, y) == FGt(y, x)

\* C6: extremal trades are a strict streaming reduction from 0: at every point of
\* the position loop the most-profitable record is the first position walked
\* that attains the maximum unrealized pnl, if that maximum is > 0, and is the
\* default record otherwise; the least-profitable record is the first position
\* walked that attains the minimum, if that minimum is < 0, and the default
\* record otherwise.
C6_ExtremalTrades ==
    /\ stats.most_profitable_trade =
          IF \E i \in 1..Len(pnl_history) : FGt(pnl_history[i][2], F64(0))
          THEN TradeOf(pnl_history[FirstExtreme(pnl_history, FGt)])
          ELSE DefaultTrade
    /\ stats.least_profitable_trade =
          IF \E i \in 1..Len(pnl_history) : FLt(pnl_history[i][2], F64(0))
          THEN TradeOf(pnl_history[FirstExtreme(pnl_history, FLt)])
          ELSE DefaultTrade

\* two positions tie for a positive maximum and the first one holds the record,
\* and no position lost, so the least-profitable record is still the default
C6_Witness ==
    /\ PositionLoopDone
    /\ \E i, j \in 1..Len(pnl_history) :
          /\ i < j
          /\ pnl_history[i][2] = pnl_history[j][2]
          /\ FGt(pnl_history[i][2], F64(0))
          /\ stats.most_profitable_trade[1] = pnl_history[i][1]
    /\ stats.least_profitable_trade = DefaultTrade

\* the records among the first n fetched positions with sizeUsd != 0, in order
ActiveAmong(n) == SelectSeq(SubSeq(position_accounts, 1, n), LAMBDA a : a.p.size_usd # 0)

\* C7: count identity and skip rule: the accumulators after walking n records are
\* those of walking only the records with sizeUsd != 0 among them (a closed
\* record changes no count, no total and no extremal record), numActive is the
\* number of such records, and longs + shorts = numActive after the loop.
C7_CountsAndSkip ==
    /\ pc \in {"position_loop", "report", "write_csv", "done"} =>
          /\ Aggregate(InitialStats, ActiveAmong(pi), 1) = Some(stats)
          /\ stats.num_positions = Len(ActiveAmong(pi))
          /\ Len(pnl_history) = Len(ActiveAmong(pi))
    /\ summary # None =>
          /\ pi = Len(position_accounts)
          /\ stats.num_longs + Value(summary).num_short = stats.num_positions
          /\ stats.num_positions = Len(ActiveAmong(Len(position_accounts)))

C7_Witness ==
    /\ pc = "done"
    /\ summary # None
    /\ stats.num_positions = 1
    /\ Len(position_accounts) = 2
    /\ position_accounts[1].p.size_usd = 0

\* C8: every stable custody gets the same borrow rate, the pooled utilisation
\* (sum of locked) / (sum of owned) over all stable custodies of the scan, whatever
\* the fetch order and its own utilisation; volatile custodies add to neither sum.
C8_StableRateUniform ==
    LET pooled == FDiv(F64(SumOver(StableFetched, "locked")),
                       F64(SumOver(StableFetched, "owned")))
    IN  /\ \A i \in 1..si :
              custody_pubkey_to_borrow_rate[stable_custodys[i]] = pooled
        /\ CustodyPassDone =>
              \A c \in StableFetched :
                  /\ c.pubkey \in DOMAIN custody_pubkey_to_borrow_rate
                  /\ custody_pubkey_to_borrow_rate[c.pubkey] = pooled

\* two stable custodies of different utilisation hold the pooled rate
C8_Witness ==
    /\ CustodyPassDone
    /\ \E c, d \in StableFetched :
          /\ c.locked # d.locked
          /\ c.owned = d.owned
          /\ c.owned # 0
          /\ custody_pubkey_to_borrow_rate[c.pubkey] = custody_pubkey_to_borrow_rate[d.pubkey]
          /\ custody_pubkey_to_borrow_rate[c.pubkey] = FDiv(F64(c.locked + d.locked),
                                                            F64(c.owned + d.owned))

====
